---- MODULE Spec2Model ----
(***************************************************************************)
(* Task-management record store (FastAPI + SQLModel over SQLite).          *)
(* The model covers the relational state (users, projects, tags, tasks,    *)
(* task-tag links, comments), the startup seeding of database.py and the   *)
(* task handlers of routes/task_router.py.                                 *)
(*                                                                         *)
(* The store is the default one, SQLite (DATABASE_URL unset): foreign keys  *)
(* are declared but not enforced, a new row gets the largest rowid plus     *)
(* one, and a SELECT without ORDER BY scans the table in rowid order.       *)
(*                                                                         *)
(* Optional values are sequences of length at most one: None is <<>>,      *)
(* Some(v) is <<v>>.  A request payload is a function from the names of    *)
(* the fields the client set to their (optional) values, so that "unset"   *)
(* and "explicitly null" are different inputs, as they are for pydantic.   *)
(***************************************************************************)
EXTENDS Integers, Sequences, FiniteSets, TLC

VARIABLES
    phase,      \* "startup" before the lifespan hook ran init_db, then "serving"
    users,      \* ids of the rows of table user
    projects,   \* ids of the rows of table project
    tags,       \* ids of the rows of table tag
    tasks,      \* table task: id -> row
    links,      \* table tasktaglink: set of <<task_id, tag_id>>
    comments,   \* table comment: id -> [task_id, author_id]
    clock,      \* the time utc_now() reads: 0 at startup, one tick per committed request
    resp,       \* the response to the last request: [code, body]
    req         \* the last request, if it was answered 200: [op, ...]; else <<>>

vars == <<phase, users, projects, tags, tasks, links, comments, clock, resp, req>>

store == <<users, projects, tags, tasks, links, comments>>

----------------------------------------------------------------------------
(* Bounds of the model *)

\* requests that commit a change, after seeding
MaxOps == 1

\* an id no row ever has
MissingId == 9

\* PaginationParams.limit: le=100
MaxLimit == 100

----------------------------------------------------------------------------
(* Optional values *)

None == <<>>

Some(v) == <<v>>

\* Python truthiness of an Optional[int]: None and 0 are falsy
Truthy(o) == o # None /\ o[1] # 0

\* Python truthiness of an Optional[List[int]]: None and [] are falsy
TruthyList(o) == o # None /\ o[1] # <<>>

\* attribute f of a request model: the value set by the client, else the default
Attr(p, f, default) == IF f \in DOMAIN p THEN p[f] ELSE default

Range(s) == {s[i] : i \in 1..Len(s)}

Max(S) == CHOOSE m \in S : \A x \in S : x <= m

----------------------------------------------------------------------------
(* Entity model: app/models/task_model.py *)

TaskStatus == {"pending", "in_progress", "completed", "cancelled"}

TaskPriority == {"low", "medium", "high", "urgent"}

\* the columns of table task other than id
TaskColumns ==
    {"title", "description", "status", "priority", "is_completed", "due_date",
     "estimated_hours", "actual_hours", "created_at", "updated_at",
     "project_id", "assignee_id", "parent_task_id"}

\* columns declared with a non-Optional type: NOT NULL in the table
NotNullColumns ==
    {"title", "status", "priority", "is_completed", "created_at", "updated_at"}

\* the time a default_factory=utc_now field gets
utc_now == clock

\* TaskCreate.model_dump(exclude={"tag_ids"}): every field, defaults filled in
TaskCreateDump(task_data) ==
    [title           |-> task_data.title,
     description     |-> Attr(task_data, "description", None),
     status          |-> Attr(task_data, "status", Some("pending")),
     priority        |-> Attr(task_data, "priority", Some("medium")),
     is_completed    |-> Attr(task_data, "is_completed", Some(FALSE)),
     due_date        |-> Attr(task_data, "due_date", None),
     estimated_hours |-> Attr(task_data, "estimated_hours", None),
     actual_hours    |-> Attr(task_data, "actual_hours", None),
     project_id      |-> Attr(task_data, "project_id", None),
     assignee_id     |-> Attr(task_data, "assignee_id", None),
     parent_task_id  |-> Attr(task_data, "parent_task_id", None)]

\* Task(**task_dict): the dumped fields plus the two timestamps
NewTask(task_dict) ==
    [c \in TaskColumns |->
        IF c \in DOMAIN task_dict THEN task_dict[c] ELSE Some(utc_now)]

\* TaskRead.model_validate(task): the flat projection of a row
TaskRead(task_id, row) == [id |-> task_id, row |-> row]

----------------------------------------------------------------------------
(* Persistence: the SQLAlchemy session over SQLite *)

\* the id SQLite gives the next row of a table: the largest rowid in use plus one
NextRowId(table) == IF DOMAIN table = {} THEN 1 ELSE Max(DOMAIN table) + 1

\* task.tags as loaded from the link table: the tags linked to task_id
TagsOf(L, task_id) == {l[2] : l \in {x \in L : x[1] = task_id}}

\* the elements of the collection the unit of work INSERTs a link row for:
\* each element of the list that was not in the loaded collection, once per
\* occurrence in the list
Added(original, current) == SelectSeq(current, LAMBDA g : g \notin original)

\* UNIQUE constraint failed: tasktaglink.task_id, tasktaglink.tag_id
UniqueViolation(added) == Len(added) # Cardinality(Range(added))

\* NOT NULL constraint failed: task.<column>
NotNullViolation(row) == \E c \in NotNullColumns : row[c] = None

\* the link table after the flush of task_id's collection `current`
FlushTags(L, task_id, current) ==
    LET original == TagsOf(L, task_id)
    IN  (L \ {<<task_id, g>> : g \in original \ Range(current)})
            \cup {<<task_id, g>> : g \in Range(Added(original, current))}

\* select(Task) with no ORDER BY over a table without indexes: SQLite scans the
\* table in rowid order
RECURSIVE Scan(_)
Scan(ids) ==
    IF ids = {} THEN <<>>
    ELSE LET m == Max(ids) IN Append(Scan(ids \ {m}), m)

----------------------------------------------------------------------------
(* Startup: app/database.py, called from the lifespan hook of main.py *)

SeedTask(title, description, status, priority, assignee_id, estimated_hours, actual_hours, is_completed, parent_task_id) ==
    [title           |-> Some(title),
     description     |-> Some(description),
     status          |-> Some(status),
     priority        |-> Some(priority),
     is_completed    |-> Some(is_completed),
     due_date        |-> None,
     estimated_hours |-> estimated_hours,
     actual_hours    |-> actual_hours,
     created_at      |-> Some(utc_now),
     updated_at      |-> Some(utc_now),
     project_id      |-> Some(1),
     assignee_id     |-> Some(assignee_id),
     parent_task_id  |-> parent_task_id]

init_db ==
    /\ phase = "startup"
    /\ phase' = "serving"
    /\ IF users # {}
       THEN UNCHANGED store
       ELSE /\ users' = {1, 2}
            /\ projects' = {1, 2}
            /\ tags' = {1, 2, 3, 4}
            /\ tasks' =
                 (1 :> SeedTask("Create user authentication", "Implement JWT",
                                "in_progress", "high", 1, Some("8.0"), None,
                                FALSE, None))
                 @@ (2 :> SeedTask("Design database schema", "Create the schema",
                                   "completed", "medium", 2, Some("4.0"),
                                   Some("3.5"), TRUE, None))
                 @@ (3 :> SeedTask("Build React components", "Create components",
                                   "pending", "medium", 1, Some("12.0"), None,
                                   FALSE, Some(1)))
            /\ links' = {<<1, 2>>, <<1, 3>>, <<2, 3>>, <<3, 1>>}
            /\ comments' = (1 :> [task_id |-> Some(1), author_id |-> Some(2)])
                           @@ (2 :> [task_id |-> Some(2), author_id |-> Some(1)])
    /\ clock' = clock + 1
    /\ UNCHANGED <<resp, req>>

----------------------------------------------------------------------------
(* Task handlers: app/routes/task_router.py *)

\* the response the client gets: the status code, and the body (the projection
\* returned, or the detail of the HTTPException)
Reply(code, body) == resp' = [code |-> code, body |-> body]

\* a raised exception: the error response
Raise(code, detail) == Reply(code, detail) /\ req' = <<>>

\* the loop "for tag_id in tag_ids: tag = session.get(Tag, tag_id); if tag: ..."
ResolveTags(tag_ids) == SelectSeq(tag_ids, LAMBDA g : g \in tags)

\* "if task_data.x_id: ... if not session.get(X, task_data.x_id): raise 404"
RefNotFound(ref, table) == Truthy(ref) /\ ref[1] \notin table

create_task(task_data) ==
    LET project_id     == Attr(task_data, "project_id", None)
        assignee_id    == Attr(task_data, "assignee_id", None)
        parent_task_id == Attr(task_data, "parent_task_id", None)
        tag_ids        == Attr(task_data, "tag_ids", Some(<<>>))
        task_id        == NextRowId(tasks)
        task           == NewTask(TaskCreateDump(task_data))
        committed      == tasks @@ (task_id :> task)
        current        == IF TruthyList(tag_ids) THEN ResolveTags(tag_ids[1]) ELSE <<>>
        added          == Added(TagsOf(links, task_id), current)
    IN  /\ phase = "serving"
        /\ IF RefNotFound(project_id, projects)
           THEN /\ Raise(404, "Project not found")
                /\ UNCHANGED <<store, clock>>
           ELSE IF RefNotFound(assignee_id, users)
           THEN /\ Raise(404, "User not found")
                /\ UNCHANGED <<store, clock>>
           ELSE IF RefNotFound(parent_task_id, DOMAIN tasks)
           THEN /\ Raise(404, "Parent task not found")
                /\ UNCHANGED <<store, clock>>
           ELSE /\ clock <= MaxOps
                /\ clock' = clock + 1
                \* first commit: the task row
                /\ tasks' = committed
                \* second commit: the links of the resolved tags
                /\ IF UniqueViolation(added)
                   THEN /\ Raise(500, "IntegrityError")
                        /\ UNCHANGED links
                   ELSE /\ Reply(200, TaskRead(task_id, task))
                        /\ req' = [op |-> "create_task", task_data |-> task_data]
                        /\ links' = FlushTags(links, task_id, current)
                /\ UNCHANGED <<users, projects, tags, comments>>
        /\ UNCHANGED phase

\* the fields of TaskUpdate: project_id, parent_task_id and the timestamps are
\* not among them
TaskUpdateFields ==
    {"title", "description", "status", "priority", "is_completed", "due_date",
     "estimated_hours", "actual_hours", "assignee_id", "tag_ids"}

\* TaskUpdate with a slip: the model also declares parent_task_id
TaskUpdateParse_WithParent(body) ==
    [f \in DOMAIN body \cap (TaskUpdateFields \cup {"parent_task_id"}) |-> body[f]]

\* the TaskUpdate the handler gets for a request body: the keys that are no
\* field of the model are ignored
TaskUpdateParse(body) ==
    [f \in DOMAIN body \cap TaskUpdateFields |-> body[f]]

\* task_data.model_dump(exclude_unset=True, exclude={"tag_ids"})
TaskUpdateDump(task_data) ==
    [f \in DOMAIN task_data \ {"tag_ids"} |-> task_data[f]]

\* SetAttrs with a slip: the loop skips the fields whose value is None
SetAttrs_SkipNone(task, update_data) ==
    [c \in TaskColumns |->
        IF c \in DOMAIN update_data /\ update_data[c] # None
        THEN update_data[c] ELSE task[c]]

\* "for field, value in update_data.items(): setattr(task, field, value)"
SetAttrs(task, update_data) ==
    [c \in TaskColumns |-> IF c \in DOMAIN update_data THEN update_data[c] ELSE task[c]]

\* NewTagList with a slip: the resolved tags are added to the collection
\* (task.tags.extend) instead of replacing it
NewTagList_Extend(task_id, tag_ids) ==
    IF tag_ids # None
    THEN Scan(TagsOf(links, task_id)) \o Added(TagsOf(links, task_id), ResolveTags(tag_ids[1]))
    ELSE Scan(TagsOf(links, task_id))

\* "if task_data.tag_ids is not None: ... task.tags = tags": the collection the
\* session flushes, as a list of tag ids
NewTagList(task_id, tag_ids) ==
    IF tag_ids # None THEN ResolveTags(tag_ids[1]) ELSE Scan(TagsOf(links, task_id))

update_task(task_id, task_data) ==
    LET assignee_id == Attr(task_data, "assignee_id", None)
        tag_ids     == Attr(task_data, "tag_ids", None)
    IN  /\ phase = "serving"
        /\ IF task_id \notin DOMAIN tasks
           THEN /\ Raise(404, "Task not found")
                /\ UNCHANGED <<store, clock>>
           ELSE IF RefNotFound(assignee_id, users)
           THEN /\ Raise(404, "User not found")
                /\ UNCHANGED <<store, clock>>
           ELSE LET task    == SetAttrs(tasks[task_id], TaskUpdateDump(task_data))
                    current == NewTagList(task_id, tag_ids)
                    added   == Added(TagsOf(links, task_id), current)
                IN  IF NotNullViolation(task) \/ UniqueViolation(added)
                    THEN \* the single commit fails: the transaction is rolled back
                         /\ Raise(500, "IntegrityError")
                         /\ UNCHANGED <<store, clock>>
                    ELSE /\ clock <= MaxOps
                         /\ clock' = clock + 1
                         /\ tasks' = [tasks EXCEPT ![task_id] = task]
                         /\ links' = FlushTags(links, task_id, current)
                         /\ Reply(200, TaskRead(task_id, task))
                         /\ req' = [op |-> "update_task", task_id |-> task_id, task_data |-> task_data]
                         /\ UNCHANGED <<users, projects, tags, comments>>
        /\ UNCHANGED phase

\* delete_task with a slip: only the task's row is deleted (a DELETE that bypasses
\* the relationships), its link rows and the references to it stay
delete_task_RowOnly(task_id) ==
    /\ phase = "serving"
    /\ IF task_id \notin DOMAIN tasks
       THEN /\ Raise(404, "Task not found")
            /\ UNCHANGED <<store, clock>>
       ELSE /\ clock <= MaxOps
            /\ clock' = clock + 1
            /\ tasks' = [i \in DOMAIN tasks \ {task_id} |-> tasks[i]]
            /\ Reply(200, TaskRead(task_id, tasks[task_id]))
            /\ req' = [op |-> "delete_task", task_id |-> task_id]
            /\ UNCHANGED <<users, projects, tags, links, comments>>
    /\ UNCHANGED phase

\* session.delete(task) with the relationships of Task as declared (no cascade):
\* the unit of work deletes the task's link rows and sets the foreign key of its
\* subtasks and comments to NULL
delete_task(task_id) ==
    /\ phase = "serving"
    /\ IF task_id \notin DOMAIN tasks
       THEN /\ Raise(404, "Task not found")
            /\ UNCHANGED <<store, clock>>
       ELSE /\ clock <= MaxOps
            /\ clock' = clock + 1
            /\ tasks' = [i \in DOMAIN tasks \ {task_id} |->
                            IF tasks[i].parent_task_id = Some(task_id)
                            THEN [tasks[i] EXCEPT !.parent_task_id = None]
                            ELSE tasks[i]]
            /\ links' = {l \in links : l[1] # task_id}
            /\ comments' = [i \in DOMAIN comments |->
                               IF comments[i].task_id = Some(task_id)
                               THEN [comments[i] EXCEPT !.task_id = None]
                               ELSE comments[i]]
            /\ Reply(200, TaskRead(task_id, tasks[task_id]))
            /\ req' = [op |-> "delete_task", task_id |-> task_id]
            /\ UNCHANGED <<users, projects, tags>>
    /\ UNCHANGED phase

\* a member of a str Enum is truthy; only an absent parameter (None) is falsy
TruthyEnum(o) == o # None

\* query.where(Task.<column> == value)
Where(rows, column, value) ==
    SelectSeq(rows, LAMBDA i : tasks[i][column] = value)

\* Offset with a slip: the offset is not applied
Offset_Ignored(rows, skip) == rows

\* query.offset(skip)
Offset(rows, skip) == SubSeq(rows, skip + 1, Len(rows))

\* query.limit(limit)
Limit(rows, limit) == SubSeq(rows, 1, IF limit < Len(rows) THEN limit ELSE Len(rows))

\* the ids of the rows get_tasks selects, in the order it returns them
GetTasksRows(q) ==
    LET q0 == Scan(DOMAIN tasks)
        q1 == IF TruthyEnum(q.status) THEN Where(q0, "status", q.status) ELSE q0
        q2 == IF TruthyEnum(q.priority) THEN Where(q1, "priority", q.priority) ELSE q1
        q3 == IF Truthy(q.project_id) THEN Where(q2, "project_id", q.project_id) ELSE q2
        q4 == IF Truthy(q.assignee_id) THEN Where(q3, "assignee_id", q.assignee_id) ELSE q3
    IN  Limit(Offset(q4, q.skip), q.limit)

get_tasks(q) ==
    /\ phase = "serving"
    /\ LET rows == GetTasksRows(q)
       IN  Reply(200, [n \in 1..Len(rows) |-> TaskRead(rows[n], tasks[rows[n]])])
    /\ req' = [op |-> "get_tasks", q |-> q]
    /\ UNCHANGED <<phase, store, clock>>

----------------------------------------------------------------------------
(* Requests *)

\* the references a client supplies: none, the id 0, an id in use, an unused id
RefVals == {None, Some(0), Some(1), Some(MissingId)}

\* tag id lists: empty, one known and one unknown id, the same id twice
TagIdLists == {<<>>, <<1, MissingId>>, <<2, 2>>}

\* a POST /tasks/ payload: title is required, everything else optional
TaskCreate(project_id, assignee_id, parent_task_id) ==
    [title |-> Some("New task"), project_id |-> project_id,
     assignee_id |-> assignee_id, parent_task_id |-> parent_task_id]

\* POST /tasks/ payloads: every combination of the three references without
\* tag_ids, every tag_ids without references, and tag_ids with a reference
\* that is 0 or unused
CreateRequests ==
    {TaskCreate(p, a, t) : p \in RefVals, a \in RefVals, t \in RefVals}
    \cup {TaskCreate(None, None, None) @@ [tag_ids |-> g] :
            g \in {None} \cup {Some(l) : l \in TagIdLists}}
    \cup {TaskCreate(p, None, None) @@ [tag_ids |-> Some(<<1, MissingId>>)] :
            p \in {Some(0), Some(MissingId)}}

\* PUT /tasks/{id} payloads with one field, set to a value or to null
UpdateFieldRequests ==
    {[title |-> v] : v \in {Some("Renamed"), None}}
    \cup {[description |-> v] : v \in {Some("Changed"), None}}
    \cup {[status |-> Some("completed")], [priority |-> Some("urgent")],
          [is_completed |-> Some(TRUE)], [due_date |-> Some("2030-01-01")],
          [estimated_hours |-> None], [actual_hours |-> Some("1.5")]}
    \cup {[assignee_id |-> v] : v \in {None, Some(0), Some(2), Some(MissingId)}}
    \cup {[tag_ids |-> g] : g \in {None} \cup {Some(l) : l \in TagIdLists}}

\* PUT /tasks/{id} payloads: empty, one field, and tag_ids with another field
UpdateRequests ==
    {<<>>} \cup UpdateFieldRequests
    \cup {[status |-> Some("cancelled"), tag_ids |-> Some(<<1, MissingId>>)],
          [title |-> None, tag_ids |-> Some(<<>>)],
          [assignee_id |-> Some(MissingId), tag_ids |-> Some(<<>>)]}

\* PUT /tasks/{id} bodies: the payloads above, and bodies with a key that is no
\* field of TaskUpdate
UpdateBodies ==
    UpdateRequests
    \cup {[parent_task_id |-> Some(3)],
          [parent_task_id |-> Some(1), title |-> Some("Renamed")]}

\* the task ids a client names: every id in use and one that is not
TaskIds == DOMAIN tasks \cup {MissingId}

\* a GET /tasks/ query string
Query(status, priority, project_id, assignee_id, skip, limit) ==
    [status |-> status, priority |-> priority, project_id |-> project_id,
     assignee_id |-> assignee_id, skip |-> skip, limit |-> limit]

\* GET /tasks/ query strings: the default listing, one filter, the filter 0
Queries ==
    {Query(None, None, None, None, 0, 10),
     Query(Some("completed"), None, None, None, 0, 1),
     Query(None, None, Some(0), None, 0, 10)}

\* the filters of the listing specification: none, each parameter alone (the
\* ids 0 and 1), and several together
ListFilters ==
    {<<None, None, None, None>>,
     <<Some("completed"), None, None, None>>,
     <<None, Some("medium"), None, None>>,
     <<None, None, Some(0), None>>,
     <<None, None, Some(1), None>>,
     <<None, None, None, Some(0)>>,
     <<None, None, None, Some(1)>>,
     <<Some("pending"), None, Some(1), None>>,
     <<None, Some("medium"), Some(1), Some(1)>>}

\* <<skip, limit>>: first and second page of 1 and of 2, the default page, a
\* skip past the end
ListPages == {<<0, 1>>, <<1, 1>>, <<0, 2>>, <<2, 2>>, <<0, 10>>, <<6, 2>>}

ListQueries ==
    {Query(f[1], f[2], f[3], f[4], pg[1], pg[2]) : f \in ListFilters, pg \in ListPages}

\* the writes of the listing specification
ListCreateRequests ==
    {TaskCreate(None, None, None), TaskCreate(Some(0), Some(0), None),
     TaskCreate(Some(1), Some(1), Some(1))}

ListUpdateRequests ==
    {[status |-> Some("completed")], [priority |-> Some("urgent")],
     [assignee_id |-> Some(0)], [assignee_id |-> None]}

----------------------------------------------------------------------------
(* Specification *)

Init ==
    /\ phase = "startup"
    /\ users = {}
    /\ projects = {}
    /\ tags = {}
    /\ tasks = <<>>
    /\ links = {}
    /\ comments = <<>>
    /\ clock = 0
    /\ resp = [code |-> 0, body |-> ""]
    /\ req = <<>>

Next ==
    \/ init_db
    \/ \E task_data \in CreateRequests : create_task(task_data)
    \/ \E task_id \in TaskIds, body \in UpdateBodies : update_task(task_id, TaskUpdateParse(body))
    \/ \E task_id \in TaskIds : delete_task(task_id)
    \/ \E q \in Queries : get_tasks(q)

Spec == Init /\ [][Next]_vars

\* the same handlers, with few writes and many listings
NextList ==
    \/ init_db
    \/ \E task_data \in ListCreateRequests : create_task(task_data)
    \/ \E task_id \in TaskIds, body \in ListUpdateRequests : update_task(task_id, TaskUpdateParse(body))
    \/ \E task_id \in TaskIds : delete_task(task_id)
    \/ \E q \in ListQueries : get_tasks(q)

SpecList == Init /\ [][NextList]_vars

----------------------------------------------------------------------------
(* Properties *)

\* the last request was answered 200 by handler `name`
Answered(name) == req # <<>> /\ req.op = name

\* a reference the client supplied that names no row of `table`
Dangling(ref, table) == ref # None /\ ref[1] \notin table

\* some reference of a create payload names no row
DanglingCreate(d) ==
    \/ Dangling(d.project_id, projects)
    \/ Dangling(d.assignee_id, users)
    \/ Dangling(d.parent_task_id, DOMAIN tasks)

\* C1: a create_task whose project_id, assignee_id or parent_task_id is supplied
\* and names no existing Project, User or Task is answered 404 and persists
\* nothing: no task row, no task-tag link.
C1_DanglingCreateRejected ==
    [][\A d \in CreateRequests :
          (create_task(d) /\ DanglingCreate(d))
              => (resp'.code = 404 /\ tasks' = tasks /\ links' = links)]_vars

\* C2: an update_task that is applied leaves every task field absent from the
\* payload at its previous value and gives every field present in the payload
\* the supplied value (null included); the empty payload changes no field.
C2_PartialUpdate ==
    [][(req' # <<>> /\ req'.op = "update_task")
          => LET i == req'.task_id
                 d == req'.task_data
             IN  /\ i \in DOMAIN tasks
                 /\ i \in DOMAIN tasks'
                 /\ \A c \in TaskColumns :
                        tasks'[i][c] = IF c \in DOMAIN d THEN d[c] ELSE tasks[i][c]]_vars

\* C2 witness: a one-field update was applied: the field has the new value and
\* the other fields of the seeded task are still there
C2_Witness ==
    /\ Answered("update_task")
    /\ req.task_data = [description |-> None]
    /\ tasks[req.task_id].description = None
    /\ tasks[req.task_id].title # None
    /\ tasks[req.task_id].estimated_hours # None

\* C3: after an update_task that is applied, the task's tag set is unchanged
\* when the request supplied no tag_ids list (absent or null), and otherwise
\* exactly the existing tags whose ids occur in the list: unknown ids are
\* dropped, the empty list clears the set, tags not in the list are removed.
C3_TagReplace ==
    [][(req' # <<>> /\ req'.op = "update_task")
          => LET i == req'.task_id
                 g == Attr(req'.task_data, "tag_ids", None)
             IN  TagsOf(links', i) =
                     IF g = None THEN TagsOf(links, i) ELSE Range(g[1]) \cap tags]_vars

\* C3 witness: task 1, seeded with tags 2 and 3, was updated with the list
\* <<1, unknown>> and now has exactly tag 1
C3_Witness ==
    /\ Answered("update_task")
    /\ req.task_id = 1
    /\ Attr(req.task_data, "tag_ids", None) = Some(<<1, MissingId>>)
    /\ TagsOf(links, 1) = {1}

\* a create payload's tag id list ([] when absent or null)
TagIdsOf(d) == IF Attr(d, "tag_ids", None) = None THEN <<>> ELSE d.tag_ids[1]

\* C4: a create_task with a tag_ids list whose references are valid is answered
\* 200 and the created task's tags are exactly the existing tags whose ids occur
\* in the list; unknown ids are dropped and no tag row is created.
C4_CreateAttachesKnownTags ==
    [][\A d \in CreateRequests :
          (create_task(d) /\ ~DanglingCreate(d))
              => /\ resp'.code = 200
                 /\ TagsOf(links', NextRowId(tasks)) = Range(TagIdsOf(d)) \cap tags
                 /\ tags' = tags]_vars

\* C5: a create_task or update_task whose tag_ids list repeats a tag id, or names
\* a tag the task already has, is answered 200 and leaves each named existing tag
\* linked to the task (once: the link table is a set of pairs); the re-add is
\* neither a duplicate nor an error.
C5_ReAddIsNoOp ==
    [][/\ \A d \in CreateRequests :
             (create_task(d) /\ ~DanglingCreate(d))
                 => /\ resp'.code = 200
                    /\ \A g \in Range(TagIdsOf(d)) \cap tags :
                           <<NextRowId(tasks), g>> \in links'
       /\ \A i \in DOMAIN tasks, d \in UpdateRequests :
             (update_task(i, d) /\ DOMAIN d = {"tag_ids"})
                 => /\ resp'.code = 200
                    /\ \A g \in Range(TagIdsOf(d)) \cap tags : <<i, g>> \in links']_vars

\* C6: every update_task that is applied and changes the task or its tags
\* advances the task's updated_at beyond its previous value, and leaves its
\* created_at as create_task set it.
C6_UpdatedAtAdvances ==
    [][(req' # <<>> /\ req'.op = "update_task" /\ (tasks' # tasks \/ links' # links))
          => LET i == req'.task_id
             IN  /\ tasks'[i].updated_at[1] > tasks[i].updated_at[1]
                 /\ tasks'[i].created_at = tasks[i].created_at]_vars

\* a stored reference is null or names a row of `table`
RefExists(ref, table) == ref = None \/ ref[1] \in table

\* C7: right after a create_task or update_task answered 200, every non-null
\* foreign key the call wrote (project_id, assignee_id, parent_task_id of the
\* task, the tag id of each of its links) names an existing row, the id 0
\* included.
C7_WrittenRefsExist ==
    /\ Answered("create_task")
          => LET i == resp.body.id
             IN  /\ RefExists(tasks[i].project_id, projects)
                 /\ RefExists(tasks[i].assignee_id, users)
                 /\ RefExists(tasks[i].parent_task_id, DOMAIN tasks)
                 /\ TagsOf(links, i) \subseteq tags
    /\ Answered("update_task")
          => LET i == req.task_id
             IN  /\ "assignee_id" \in DOMAIN req.task_data
                        => RefExists(tasks[i].assignee_id, users)
                 /\ TagsOf(links, i) \subseteq tags

\* the ids of the rows of a listing, in order
Ids(body) == [n \in 1..Len(body) |-> body[n].id]

\* the filter parameters of GET /tasks/
FilterParams == {"status", "priority", "project_id", "assignee_id"}

\* C8: before pagination, get_tasks returns exactly the tasks that equal every
\* supplied filter parameter; an absent parameter does not constrain, a supplied
\* one always does, project_id = 0 and assignee_id = 0 included.
C8_FiltersConjunctive ==
    (Answered("get_tasks") /\ req.q.skip = 0 /\ req.q.limit >= Cardinality(DOMAIN tasks))
        => Range(Ids(resp.body)) =
              {i \in DOMAIN tasks :
                  \A f \in FilterParams : req.q[f] # None => tasks[i][f] = req.q[f]}

C10_FailedCallChangesNothing ==
    [][(resp'.code \notin {0, 200}) => (tasks' = tasks /\ links' = links)]_vars

\* the task reached from task i by following parent_task_id n times, if there
\* is one: the chain ends at a null reference and at a reference to no row
RECURSIVE AncestorAt(_, _)
AncestorAt(i, n) ==
    IF n = 0 THEN Some(i)
    ELSE LET a == AncestorAt(i, n - 1)
         IN  IF a = None \/ a[1] \notin DOMAIN tasks THEN None
             ELSE tasks[a[1]].parent_task_id

OtherRowsKept(before, after, i) ==
    /\ DOMAIN after = DOMAIN before \ {i}
    /\ \A j \in DOMAIN after : after[j] = before[j]

\* C12 as stated: delete_task on an existing task removes only that task's row;
\* the parent_task_id of its subtasks, the task_id of its comments and the link
\* pairs naming it stay as they were, and no subtask, comment or tag row is
\* deleted or modified.
C12_DeleteLeavesReferences ==
    [][(req' # <<>> /\ req'.op = "delete_task")
          => /\ OtherRowsKept(tasks, tasks', req'.task_id)
             /\ comments' = comments
             /\ links' = links
             /\ tags' = tags]_vars

\* C12 as amended: delete_task on an existing task removes that task's row and
\* the link pairs naming it, and sets to null the parent_task_id of each of its
\* subtasks and the task_id of each of its comments; no subtask, comment or tag
\* row is deleted and no other field of any row changes.
C12_DeleteDetaches ==
    [][(req' # <<>> /\ req'.op = "delete_task")
          => LET i == req'.task_id
             IN  /\ i \in DOMAIN tasks
                 /\ DOMAIN tasks' = DOMAIN tasks \ {i}
                 /\ \A j \in DOMAIN tasks' :
                        /\ tasks'[j].parent_task_id =
                               IF tasks[j].parent_task_id = Some(i) THEN None
                               ELSE tasks[j].parent_task_id
                        /\ \A c \in TaskColumns \ {"parent_task_id"} :
                               tasks'[j][c] = tasks[j][c]
                 /\ DOMAIN comments' = DOMAIN comments
                 /\ \A k \in DOMAIN comments :
                        /\ comments'[k].task_id =
                               IF comments[k].task_id = Some(i) THEN None
                               ELSE comments[k].task_id
                        /\ comments'[k].author_id = comments[k].author_id
                 /\ links' = {l \in links : l[1] # i}
                 /\ tags' = tags]_vars

\* C12 witness: task 1 (seeded with subtask 3, comment 1 and two tags) was
\* deleted: the subtask and the comment are still stored, detached, and no link
\* names task 1
C12_Witness ==
    /\ Answered("delete_task")
    /\ req.task_id = 1
    /\ 1 \notin DOMAIN tasks
    /\ tasks[3].parent_task_id = None
    /\ comments[1].task_id = None
    /\ TagsOf(links, 1) = {}

====
